---- MODULE Spec2Model ----
(***************************************************************************)
(* A model of the narrow-phase query core of ncollide:                     *)
(*   - the time-of-impact dispatcher any_against_any,                      *)
(*   - the persistent BallBallProximityDetector,                           *)
(*   - the best-first distance query composite_shape_against_any,          *)
(*   - the two-dimensional Expanding Polytope Algorithm EPA2.              *)
(* Each component has its own specification over the shared variables; a   *)
(* component that a specification does not exercise stays in its initial   *)
(* state.                                                                  *)
(***************************************************************************)
EXTENDS Integers, Sequences, FiniteSets, TLC

VARIABLES toi, det, detHist, bfs, epa, ref

vars == <<toi, det, detHist, bfs, epa, ref>>

(***************************************************************************)
(* Option<T>                                                               *)
(***************************************************************************)
None == [some |-> FALSE]

Some(v) == [some |-> TRUE, val |-> v]

(***************************************************************************)
(* Small input domains.                                                    *)
(***************************************************************************)
\* Largest coordinate of a translation handed to the dispatcher or detector.
MaxCoord == 3

\* Largest ball radius.
MaxRadius == 2

\* Largest proximity margin.
MaxMargin == 1

\* Largest time of impact a specialised routine reports.
MaxToi == 1

\* Largest number of sub-parts of a composite shape.
MaxParts == 3

\* Largest first coordinate of a sub-part in the composite shape's frame.
MaxPartX == 1

\* Largest half-extent of the second shape of a distance query.
MaxHalf == 1

\* Largest translation along the first axis that places a shape for EPA.
MaxShift == 1

\* How many calls of project_origin one engine serves.
MaxCalls == 2

\* The cap on the iterations of EPA2::project_origin.  The source has 10000
\* (epa2.rs, line 280); the model runs the same code with a cap scaled down
\* to what its shapes can reach, and states every property of the cap
\* relative to IterCap.
IterCap == 3

(***************************************************************************)
(* Time-of-impact dispatcher (time_of_impact_internal/any_against_any.rs)  *)
(***************************************************************************)
\* What desc() can view a shape as.
Capabilities == {"Ball", "Plane", "SupportMap", "Composite"}

\* The specialised routines live outside this component: the value a routine
\* returns is an input of the dispatch.
ToiResults == {None} \cup {Some(t) : t \in 0 .. MaxToi}

\* A call of a specialised routine: the views of the two operands it is
\* handed ("Shape" is the operand itself, not a view of it) and its result.
Invoke(routine, v1, v2, r) ==
    [pc |-> "done",
     calls |-> <<[routine |-> routine, view1 |-> v1, view2 |-> v2, result |-> r]>>,
     ret |-> r]

\* panic!("No algorithm known ...")
NoAlgorithm == [pc |-> "panic", calls |-> <<>>, ret |-> None]

\* Mutant of any_against_any: the support-map pair is tried before the planes.
any_against_any_reordered(c1, c2, r) ==
    IF "Ball" \in c1 /\ "Ball" \in c2
    THEN Invoke("ball_against_ball", "Ball", "Ball", r)
    ELSE IF "SupportMap" \in c1 /\ "SupportMap" \in c2
    THEN Invoke("support_map_against_support_map", "SupportMap", "SupportMap", r)
    ELSE IF "Plane" \in c1 /\ "SupportMap" \in c2
    THEN Invoke("plane_against_support_map", "Plane", "SupportMap", r)
    ELSE IF "SupportMap" \in c1 /\ "Plane" \in c2
    THEN Invoke("support_map_against_plane", "SupportMap", "Plane", r)
    ELSE IF "Composite" \in c1
    THEN Invoke("composite_shape_against_any", "Composite", "Shape", r)
    ELSE IF "Composite" \in c2
    THEN Invoke("any_against_composite_shape", "Shape", "Composite", r)
    ELSE NoAlgorithm

\* any_against_any on shapes with capabilities c1 and c2; r is what the
\* routine that gets invoked returns.
any_against_any(c1, c2, r) ==
    IF "Ball" \in c1 /\ "Ball" \in c2
    THEN Invoke("ball_against_ball", "Ball", "Ball", r)
    ELSE IF "Plane" \in c1 /\ "SupportMap" \in c2
    THEN Invoke("plane_against_support_map", "Plane", "SupportMap", r)
    ELSE IF "SupportMap" \in c1 /\ "Plane" \in c2
    THEN Invoke("support_map_against_plane", "SupportMap", "Plane", r)
    ELSE IF "SupportMap" \in c1 /\ "SupportMap" \in c2
    THEN Invoke("support_map_against_support_map", "SupportMap", "SupportMap", r)
    ELSE IF "Composite" \in c1
    THEN Invoke("composite_shape_against_any", "Composite", "Shape", r)
    ELSE IF "Composite" \in c2
    THEN Invoke("any_against_composite_shape", "Shape", "Composite", r)
    ELSE NoAlgorithm

ToiCall(c1, c2) == [pc |-> "call", caps1 |-> c1, caps2 |-> c2, calls |-> <<>>, ret |-> None]

\* One call of any_against_any, from entry to return or panic.
ToiDispatch ==
    /\ toi.pc = "call"
    /\ \E r \in ToiResults :
         LET out == any_against_any(toi.caps1, toi.caps2, r)
         IN  toi' = [toi EXCEPT !.pc = out.pc, !.calls = out.calls, !.ret = out.ret]
    /\ UNCHANGED <<det, detHist, bfs, epa, ref>>

\* The caller asks the next query; a panic ends the process.
ToiQuery ==
    /\ toi.pc = "done"
    /\ \E c1, c2 \in SUBSET Capabilities : toi' = ToiCall(c1, c2)
    /\ UNCHANGED <<det, detHist, bfs, epa, ref>>

(***************************************************************************)
(* Persistent ball/ball proximity detector                                 *)
(* (narrow_phase/proximity_detector/ball_ball_proximity_detector.rs)       *)
(***************************************************************************)
Proximity == {"Disjoint", "WithinMargin", "Intersecting"}

\* Isometries are represented by their translation, the only part
\* m.translate(origin) reads.
Translations == {<<x, y>> : x \in 0 .. MaxCoord, y \in 0 .. 1}

DetOrigins == {<<0, 0>>, <<1, 0>>}

Ball(r) == [kind |-> "Ball", radius |-> r]

DetShapes == {Ball(r) : r \in 1 .. MaxRadius} \cup {[kind |-> "Plane", radius |-> 0]}

\* ra.as_shape::<Ball<_>>()
as_ball(g) == IF g.kind = "Ball" THEN Some(g) ELSE None

NormSquared(v) == v[1] * v[1] + v[2] * v[2]

\* proximity_internal::ball_against_ball: the closed form on the separation
\* |c1 - c2| - r1 - r2, compared through squares.
ball_against_ball(c1, b1, c2, b2, margin) ==
    LET dsq == NormSquared(<<c2[1] - c1[1], c2[2] - c1[2]>>)
        sum == b1.radius + b2.radius
    IN  IF dsq > (sum + margin) * (sum + margin) THEN "Disjoint"
        ELSE IF dsq < sum * sum THEN "Intersecting"
        ELSE "WithinMargin"

\* BallBallProximityDetector::new
NewDetector == [proximity |-> "Disjoint"]

\* Mutant of update: a pair it cannot view as balls resets the stored value.
update_resetting(self, ma, a, mb, b, margin) ==
    IF as_ball(a).some /\ as_ball(b).some
    THEN [self |-> [self EXCEPT !.proximity =
                       ball_against_ball(ma, as_ball(a).val, mb, as_ball(b).val, margin)],
          ret |-> TRUE]
    ELSE [self |-> NewDetector, ret |-> FALSE]

\* Mutant of update: the stored value is kept when the detector was already
\* intersecting.
update_sticky(self, ma, a, mb, b, margin) ==
    IF as_ball(a).some /\ as_ball(b).some
    THEN [self |-> IF self.proximity = "Intersecting" THEN self
                   ELSE [self EXCEPT !.proximity =
                       ball_against_ball(ma, as_ball(a).val, mb, as_ball(b).val, margin)],
          ret |-> TRUE]
    ELSE [self |-> self, ret |-> FALSE]

\* BallBallProximityDetector::update: the detector after the call and the
\* value returned.
update(self, ma, a, mb, b, margin) ==
    IF as_ball(a).some /\ as_ball(b).some
    THEN [self |-> [self EXCEPT !.proximity =
                       ball_against_ball(ma, as_ball(a).val, mb, as_ball(b).val, margin)],
          ret |-> TRUE]
    ELSE [self |-> self, ret |-> FALSE]

\* BallBallProximityDetector::proximity
proximity(self) == self.proximity

\* History of the calls made on the detector: whether update was called, the
\* arguments and result of the last call, the value stored before it, and
\* the ball/ball classification of the arguments of the last call whose two
\* shapes were balls (None before the first such call).
NoHistory == [called |-> FALSE, args |-> <<>>, ret |-> FALSE, prev |-> "Disjoint",
              balls |-> None]

DetUpdate ==
    \E ma \in DetOrigins, mb \in Translations, a, b \in DetShapes, margin \in 0 .. MaxMargin :
       LET out == update(det, ma, a, mb, b, margin)
           args == <<ma, a, mb, b, margin>>
       IN  /\ det' = out.self
           /\ detHist' = [called |-> TRUE, args |-> args, ret |-> out.ret,
                          prev |-> proximity(det),
                          balls |-> IF a.kind = "Ball" /\ b.kind = "Ball"
                                    THEN Some(ball_against_ball(ma, a, mb, b, margin))
                                    ELSE detHist.balls]
           /\ UNCHANGED <<toi, bfs, epa, ref>>

(***************************************************************************)
(* Best-first distance query on a composite shape                          *)
(* (distance_internal/composite_shape_against_any.rs)                      *)
(*                                                                         *)
(* Points and vectors are pairs of integers and an isometry is its          *)
(* translation.  A distance is carried as its square: the query only        *)
(* compares distances and takes their minimum, and squaring preserves the   *)
(* order of non-negative numbers.  The sub-parts of the composite shape are *)
(* points and the second shape is an axis-aligned square.                   *)
(***************************************************************************)
Add(u, v) == <<u[1] + v[1], u[2] + v[2]>>

Sub(u, v) == <<u[1] - v[1], u[2] - v[2]>>

Neg(u) == <<0 - u[1], 0 - u[2]>>

Min2(a, b) == IF a <= b THEN a ELSE b

Max2(a, b) == IF a >= b THEN a ELSE b

\* N::max_value(), above every distance of the model.
Infinity == 1000000

\* AABB::new
AABB(mins, maxs) == [mins |-> mins, maxs |-> maxs]

\* AABB::center, AABB::half_extents
center(bv) == <<(bv.mins[1] + bv.maxs[1]) \div 2, (bv.mins[2] + bv.maxs[2]) \div 2>>

half_extents(bv) == <<(bv.maxs[1] - bv.mins[1]) \div 2, (bv.maxs[2] - bv.mins[2]) \div 2>>

\* BoundingVolume::merged
merged(b1, b2) ==
    AABB(<<Min2(b1.mins[1], b2.mins[1]), Min2(b1.mins[2], b2.mins[2])>>,
         <<Max2(b1.maxs[1], b2.maxs[1]), Max2(b1.maxs[2], b2.maxs[2])>>)

\* The box of half-extent h around point p.
BoxAround(p, h) == AABB(<<p[1] - h, p[2] - h>>, <<p[1] + h, p[2] + h>>)

AxisGap(lo, hi) == IF lo > 0 THEN lo ELSE IF hi < 0 THEN 0 - hi ELSE 0

\* AABB::distance_to_point(&Identity, &origin, solid = true)
distance_to_origin(bv) ==
    AxisGap(bv.mins[1], bv.maxs[1]) * AxisGap(bv.mins[1], bv.maxs[1])
    + AxisGap(bv.mins[2], bv.maxs[2]) * AxisGap(bv.mins[2], bv.maxs[2])

\* na::inverse(m1) * m2 on translations.
inverse_times(m1, m2) == Sub(m2, m1)

\* bounding_volume::aabb(g2, m): the box of the square g2 placed at m.
aabb(g2, m) == BoxAround(m, g2.half)

\* distance_internal::distance between sub-part `part` of g1, a point, placed
\* by m1 and the square g2 placed by m2.
distance(m1, part, m2, g2) ==
    LET p == Add(m1, part)
    IN  distance_to_origin(AABB(Sub(aabb(g2, m2).mins, p), Sub(aabb(g2, m2).maxs, p)))

\* The bounding volume tree of a composite shape: a leaf holds the index of
\* a sub-part, an internal node the merged volume of its two children.
Leaf(bv, b) == [kind |-> "Leaf", bv |-> bv, b |-> b]

Internal(l, r) == [kind |-> "Internal", bv |-> merged(l.bv, r.bv), left |-> l, right |-> r]

RECURSIVE Trees(_, _, _)
\* Every tree over the sub-parts lo .. hi of `parts`, in this order; the
\* box of a leaf is the point it holds.
Trees(parts, lo, hi) ==
    IF lo = hi THEN {Leaf(BoxAround(parts[lo], 0), lo)}
    ELSE UNION {{Internal(l, r) : l \in Trees(parts, lo, k),
                                  r \in Trees(parts, k + 1, hi)} : k \in lo .. hi - 1}

\* CompositeShape::bvt
Bvts(parts) ==
    IF parts = <<>> THEN {None}
    ELSE {Some(t) : t \in Trees(parts, 1, Len(parts))}

\* Mutant of CostFnNew: the box of g2 is taken in the world frame.
CostFnNew_world(m1, g1, m2, g2) ==
    LET ls_aabb2 == aabb(g2, m2)
    IN  [msum_shift |-> Neg(center(ls_aabb2)), msum_margin |-> half_extents(ls_aabb2),
         m1 |-> m1, g1 |-> g1, m2 |-> m2, g2 |-> g2]

\* CompositeShapeAgainstAnyDistCostFn::new
CostFnNew(m1, g1, m2, g2) ==
    LET ls_m2 == inverse_times(m1, m2)
        ls_aabb2 == aabb(g2, ls_m2)
    IN  [msum_shift |-> Neg(center(ls_aabb2)), msum_margin |-> half_extents(ls_aabb2),
         m1 |-> m1, g1 |-> g1, m2 |-> m2, g2 |-> g2]

\* Mutant of compute_bv_cost: the box of the node is not inflated by the
\* extents of g2.
compute_bv_cost_no_margin(self, bv) ==
    LET msum == AABB(Add(bv.mins, self.msum_shift), Add(bv.maxs, self.msum_shift))
    IN  Some(distance_to_origin(msum))

\* BVTCostFn::compute_bv_cost
compute_bv_cost(self, bv) ==
    LET msum == AABB(Add(Add(bv.mins, self.msum_shift), Neg(self.msum_margin)),
                     Add(Add(bv.maxs, self.msum_shift), self.msum_margin))
    IN  Some(distance_to_origin(msum))

\* BVTCostFn::compute_b_cost: map_transformed_part_at hands over sub-part b
\* placed by m1.
compute_b_cost(self, b) ==
    LET d == distance(self.m1, self.g1.parts[b], self.m2, self.g2)
    IN  Some(<<d, d>>)

\* Mutant of SearchResult: an empty search gives the largest distance.
SearchResult_sentinel(found) ==
    IF found.some THEN [pc |-> "done", ret |-> Some(found.val[2])]
    ELSE [pc |-> "done", ret |-> Some(Infinity)]

\* composite_shape_against_any, line 21:
\* .map(|(_, res)| res).expect("The composite shape must not be empty.")
SearchResult(found) ==
    IF found.some THEN [pc |-> "done", ret |-> Some(found.val[2])]
    ELSE [pc |-> "panic", ret |-> None]

\* A call of composite_shape_against_any(m1, g1, m2, g2).  The last two
\* fields are history: args holds the arguments given to
\* any_against_composite_shape when the call comes from there, prior the
\* outcome of the call made before this one on the same arguments.
CompCall(m1, g1, m2, g2) ==
    [pc |-> "call", m1 |-> m1, g1 |-> g1, m2 |-> m2, g2 |-> g2,
     cost_fn |-> None, queue |-> {}, best_cost |-> Infinity, result |-> None,
     leaves |-> {}, ret |-> None, args |-> <<>>, prior |-> None]

\* Mutant of any_against_composite_shape: the shapes are swapped, the
\* transformations are not.
any_against_composite_shape_shapes_only(m1, g1, m2, g2) == CompCall(m1, g2, m2, g1)

\* any_against_composite_shape(m1, g1, m2, g2), line 31.
any_against_composite_shape(m1, g1, m2, g2) == CompCall(m2, g2, m1, g1)

CompTranslations == {<<0, 0>>, <<1, 1>>}

CompTargets == {<<4, 0>>, <<1, 2>>, <<0, 1>>}

\* Where a sub-part may lie in the frame of the composite shape: on two rows.
PartPoints == {<<x, 3 * y>> : x \in 0 .. MaxPartX, y \in 0 .. 1}

CompShapes ==
    UNION {{[parts |-> parts, bvt |-> t] : t \in Bvts(parts)} :
              parts \in UNION {[1 .. n -> PartPoints] : n \in 0 .. MaxParts}}

CompCalls ==
    {CompCall(m1, g1, m2, [half |-> h]) :
        m1 \in CompTranslations, g1 \in CompShapes, m2 \in CompTargets, h \in 0 .. MaxHalf}

\* The entries of the queue with the lowest cost.
Cheapest(queue) == {e \in queue : \A f \in queue : e.cost <= f.cost}

\* The children of an internal node that the search keeps: those whose cost
\* is below the best leaf found so far.
Kept(self, node, best_cost) ==
    {[node |-> c, cost |-> compute_bv_cost(self, c.bv).val] :
        c \in {d \in {node.left, node.right} :
                  compute_bv_cost(self, d.bv).val < best_cost}}

\* Entry of composite_shape_against_any: the cost function is built and
\* best_first_search starts from the root; an empty tree ends the search at
\* once.
CompStart ==
    /\ bfs.pc = "call"
    /\ LET self == CostFnNew(bfs.m1, bfs.g1, bfs.m2, bfs.g2)
       IN  IF bfs.g1.bvt.some
           THEN bfs' = [bfs EXCEPT !.pc = "search", !.cost_fn = Some(self),
                          !.queue = {[node |-> bfs.g1.bvt.val,
                                      cost |-> compute_bv_cost(self, bfs.g1.bvt.val.bv).val]}]
           ELSE bfs' = [bfs EXCEPT !.pc = SearchResult(None).pc,
                                   !.cost_fn = Some(self),
                                   !.ret = SearchResult(None).ret]
    /\ UNCHANGED <<toi, det, detHist, epa, ref>>

\* best_first_search pops an internal node that can still improve the result.
CompVisitInternal ==
    /\ bfs.pc = "search"
    /\ \E e \in Cheapest(bfs.queue) :
          /\ e.cost < bfs.best_cost
          /\ e.node.kind = "Internal"
          /\ bfs' = [bfs EXCEPT !.queue = (bfs.queue \ {e})
                                   \cup Kept(bfs.cost_fn.val, e.node, bfs.best_cost)]
    /\ UNCHANGED <<toi, det, detHist, epa, ref>>

\* best_first_search pops a leaf that can still improve the result.
CompVisitLeaf ==
    /\ bfs.pc = "search"
    /\ \E e \in Cheapest(bfs.queue) :
          /\ e.cost < bfs.best_cost
          /\ e.node.kind = "Leaf"
          /\ LET c == compute_b_cost(bfs.cost_fn.val, e.node.b).val
             IN  bfs' = [bfs EXCEPT !.queue = bfs.queue \ {e},
                            !.leaves = bfs.leaves \cup {e.node.b},
                            !.best_cost = IF c[1] < bfs.best_cost THEN c[1] ELSE bfs.best_cost,
                            !.result = IF c[1] < bfs.best_cost
                                       THEN Some(<<e.node.b, c[2]>>) ELSE bfs.result]
    /\ UNCHANGED <<toi, det, detHist, epa, ref>>

\* best_first_search ends, on an empty queue or on a popped node that cannot
\* improve the result, and composite_shape_against_any returns.
CompFinish ==
    /\ bfs.pc = "search"
    /\ \/ bfs.queue = {}
       \/ \E e \in Cheapest(bfs.queue) : e.cost >= bfs.best_cost
    /\ bfs' = [bfs EXCEPT !.pc = SearchResult(bfs.result).pc,
                          !.ret = SearchResult(bfs.result).ret]
    /\ UNCHANGED <<toi, det, detHist, epa, ref>>

\* The composite shapes any_against_composite_shape is called on.
MaxEntryParts == 2

EntryShapes ==
    UNION {{[parts |-> parts, bvt |-> t] : t \in Bvts(parts)} :
              parts \in UNION {[1 .. n -> PartPoints] : n \in 0 .. MaxEntryParts}}

\* The arguments (m1, g1, m2, g2) of any_against_composite_shape: a square
\* and a composite shape.
EntryCalls ==
    {<<m1, [half |-> h], m2, g2>> :
        m1 \in CompTargets, h \in 0 .. MaxHalf, m2 \in CompTranslations, g2 \in EntryShapes}

\* A caller about to call any_against_composite_shape on args.
EntryPending(args) ==
    [CompCall(<<0, 0>>, [parts |-> <<>>, bvt |-> None], <<0, 0>>, [half |-> 0])
        EXCEPT !.pc = "entry", !.args = args]

\* any_against_composite_shape is entered and hands over to
\* composite_shape_against_any.
EntryDelegate ==
    /\ bfs.pc = "entry"
    /\ bfs' = [any_against_composite_shape(bfs.args[1], bfs.args[2], bfs.args[3], bfs.args[4])
                 EXCEPT !.args = bfs.args]
    /\ UNCHANGED <<toi, det, detHist, epa, ref>>

\* After the call of any_against_composite_shape(m1, g1, m2, g2) has ended,
\* the caller calls composite_shape_against_any(m2, g2, m1, g1) itself.
EntryDirect ==
    /\ bfs.pc \in {"done", "panic"}
    /\ bfs.args # <<>>
    /\ ~bfs.prior.some
    /\ bfs' = [CompCall(bfs.args[3], bfs.args[4], bfs.args[1], bfs.args[2])
                 EXCEPT !.args = bfs.args,
                        !.prior = Some([pc |-> bfs.pc, ret |-> bfs.ret])]
    /\ UNCHANGED <<toi, det, detHist, epa, ref>>

(***************************************************************************)
(* Expanding Polytope Algorithm in 2D (query/algorithms/epa2.rs)           *)
(*                                                                         *)
(* Arithmetic is exact.  Points have integer coordinates.  A unit vector   *)
(* is carried as the shortest integer vector of its direction (the zero    *)
(* vector stays zero), so a scalar product with a unit vector is a number  *)
(* p / sqrt(q), carried as the pair of integers p and q.  The point of an  *)
(* edge nearest the origin is carried as an integer vector over a common   *)
(* denominator.  On these numbers two distinct values differ by far more   *)
(* than the tolerances of the source (100 machine epsilons), so that       *)
(* x < tolerance is x <= 0 and x > tolerance is x > 0.                      *)
(***************************************************************************)
Dot(u, v) == u[1] * v[1] + u[2] * v[2]

Abs(n) == IF n < 0 THEN 0 - n ELSE n

RECURSIVE Gcd(_, _)
Gcd(a, b) == IF b = 0 THEN a ELSE Gcd(b, a % b)

\* The number p / sqrt(q).
Scalar(p, q) == [p |-> p, q |-> q]

\* N::max_value(): the one scalar with q = 0.
MaxValue == [p |-> 0, q |-> 0]

\* x < y
ScLt(x, y) ==
    IF x.q = 0 THEN FALSE
    ELSE IF y.q = 0 THEN TRUE
    ELSE IF x.p < 0 /\ y.p >= 0 THEN TRUE
    ELSE IF x.p >= 0 /\ y.p < 0 THEN FALSE
    ELSE IF x.p >= 0 THEN x.p * x.p * y.q < y.p * y.p * x.q
    ELSE x.p * x.p * y.q > y.p * y.p * x.q

\* -x
ScNeg(x) == Scalar(0 - x.p, x.q)

\* x > gjk::eps_tol()
AboveEpsTol(x) == x.p > 0

\* Mutant of GapBelowEpsTol: the tolerance is taken as zero.
GapBelowEpsTol_strict(x, y) == ScLt(x, y)

\* x - y < _eps_tol
GapBelowEpsTol(x, y) == ~ScLt(y, x)

\* Unit::try_new(v, N::default_epsilon()) and Unit::new_unchecked(na::zero())
UnitOf(v) ==
    IF v = <<0, 0>> THEN v
    ELSE <<v[1] \div Gcd(Abs(v[1]), Abs(v[2])), v[2] \div Gcd(Abs(v[1]), Abs(v[2]))>>

\* na::dot(n, v) for a unit vector n and an integer vector v.
UnitDot(n, v) == IF n = <<0, 0>> THEN Scalar(0, 1) ELSE Scalar(Dot(n, v), Dot(n, n))

\* Point::origin() as the point of a face.
OriginPoint == [num |-> <<0, 0>>, den |-> 1]

\* na::dot(n, &proj.coords) for a unit vector n and a point of a face.
UnitDotProj(n, proj) ==
    IF n = <<0, 0>> THEN Scalar(0, 1) ELSE Scalar(Dot(n, proj.num) \div proj.den, Dot(n, n))

\* utils::perp2
perp2(u, v) == u[1] * v[2] - u[2] * v[1]

\* Point::ccw_face_normal(&[a, b])
ccw_face_normal(a, b) ==
    IF a = b THEN None ELSE Some(UnitOf(<<b[2] - a[2], 0 - (b[1] - a[1])>>))

\* project_origin(a, b), the free function at the end of epa2.rs.
project_origin(a, b) ==
    LET ab == Sub(b, a)
        ap == Neg(a)
        ab_ap == Dot(ab, ap)
        sqnab == Dot(ab, ab)
    IN  IF sqnab = 0 THEN None
        ELSE IF ab_ap < 0 \/ ab_ap > sqnab THEN None
        ELSE Some([num |-> <<a[1] * (sqnab - ab_ap) + b[1] * ab_ap,
                             a[2] * (sqnab - ab_ap) + b[2] * ab_ap>>,
                   den |-> sqnab])

\* The vertex buffer is indexed from 0 in the source.
At(seq, i) == seq[i + 1]

\* Face::new_with_proj
new_with_proj(vertices, proj, pts) ==
    LET n == ccw_face_normal(At(vertices, pts[1]), At(vertices, pts[2]))
    IN  [pts |-> pts,
         normal |-> IF n.some THEN n.val ELSE <<0, 0>>,
         proj |-> proj,
         deleted |-> ~n.some]

\* Face::new: the face and whether the origin projects inside it.
FaceNew(vertices, pts) ==
    LET proj == project_origin(At(vertices, pts[1]), At(vertices, pts[2]))
    IN  IF proj.some THEN <<new_with_proj(vertices, proj.val, pts), TRUE>>
        ELSE <<new_with_proj(vertices, OriginPoint, pts), FALSE>>

\* Mutant of FaceIdNew: the key is not compared with the tolerance.
FaceIdNew_unchecked(id, neg_dist) == Some([id |-> id, neg_dist |-> neg_dist])

\* FaceId::new
FaceIdNew(id, neg_dist) ==
    IF AboveEpsTol(neg_dist) THEN None ELSE Some([id |-> id, neg_dist |-> neg_dist])

\* Mutant of FaceIdGt: the comparison is turned around.
FaceIdGt_reversed(a, b) == ScLt(a.neg_dist, b.neg_dist)

\* Ord for FaceId: a > b
FaceIdGt(a, b) == ScLt(b.neg_dist, a.neg_dist)

(***************************************************************************)
(* std::collections::BinaryHeap<FaceId>, as an array with its root first.  *)
(***************************************************************************)
RECURSIVE sift_up(_, _, _)
\* The hole at position pos moves up until x fits.
sift_up(data, pos, x) ==
    IF pos > 1 /\ FaceIdGt(x, data[pos \div 2])
    THEN sift_up([data EXCEPT ![pos] = data[pos \div 2]], pos \div 2, x)
    ELSE [data EXCEPT ![pos] = x]

RECURSIVE sift_down_to_bottom(_, _, _)
\* The hole at position pos moves down to a leaf along the greater children,
\* then x is sifted up from there.
sift_down_to_bottom(data, pos, x) ==
    IF 2 * pos <= Len(data)
    THEN LET child == IF 2 * pos + 1 <= Len(data)
                         /\ ~FaceIdGt(data[2 * pos], data[2 * pos + 1])
                      THEN 2 * pos + 1 ELSE 2 * pos
         IN  sift_down_to_bottom([data EXCEPT ![pos] = data[child]], child, x)
    ELSE sift_up(data, pos, x)

\* BinaryHeap::push
HeapPush(heap, x) == sift_up(Append(heap, x), Len(heap) + 1, x)

\* BinaryHeap::pop on a non-empty heap: the item and the heap left.
HeapPop(heap) ==
    IF Len(heap) = 1 THEN [item |-> heap[1], heap |-> <<>>]
    ELSE [item |-> heap[1],
          heap |-> sift_down_to_bottom(SubSeq(heap, 1, Len(heap) - 1), 1, heap[Len(heap)])]

\* BinaryHeap::peek
HeapPeek(heap) == IF heap = <<>> THEN None ELSE Some(heap[1])

\* SupportMap::support_point(m, dir) of a convex polygon placed by the
\* translation m: the first vertex that is farthest along dir.
support_point(shape, m, dir) ==
    LET best == CHOOSE i \in 1 .. Len(shape) :
                   /\ \A j \in 1 .. Len(shape) : Dot(shape[j], dir) <= Dot(shape[i], dir)
                   /\ \A j \in 1 .. i - 1 : Dot(shape[j], dir) < Dot(shape[i], dir)
    IN  Add(m, shape[best])

(***************************************************************************)
(* EPA2::project_origin                                                    *)
(***************************************************************************)
\* EPA2::new, with the locals of project_origin when no call is running.
\* The last fields are history: exit names the return statement of the
\* call, calls counts the calls made on the engine, stale the entries its
\* three buffers held when the call was made, pops the entries popped,
\* skips the entries discarded for a deleted face, splits the faces split in
\* two by the call, and seen the entry and the support distance
\* (candidate_max_dist) of every face expanded by the call, in order.
NewEngine ==
    [vertices |-> <<>>, faces |-> <<>>, heap |-> <<>>,
     pc |-> "idle", m |-> <<0, 0>>, shape |-> <<>>, simplex |-> <<>>,
     niter |-> 0, max_dist |-> MaxValue, best_face_id |-> None, ret |-> None,
     exit |-> "", calls |-> 0, stale |-> 0, pops |-> 0, skips |-> 0, splits |-> 0,
     seen |-> <<>>]

\* Mutant of reset: the vertex buffer is not cleared.
reset_keeps_vertices(e) == [e EXCEPT !.faces = <<>>, !.heap = <<>>]

\* EPA2::reset
reset(e) == [e EXCEPT !.vertices = <<>>, !.faces = <<>>, !.heap = <<>>]

\* `return r` from project_origin; exit names the return statement.
Return(e, r, exit) == [e EXCEPT !.pc = "done", !.ret = r, !.exit = exit]

\* A panic inside project_origin.
Panic(e, exit) == [e EXCEPT !.pc = "panic", !.ret = None, !.exit = exit]

\* What project_origin returns for a face: its point and its normal.
FaceResult(face) == Some([proj |-> face.proj, normal |-> face.normal])

RECURSIVE PushFaceIds(_, _)
\* The statements `self.heap.push(FaceId::new(id, neg_dist)?)` of the
\* initialization, in order; the first FaceId::new that gives None ends them.
PushFaceIds(heap, entries) ==
    IF entries = <<>> THEN [ok |-> TRUE, heap |-> heap]
    ELSE LET id == FaceIdNew(entries[1][1], entries[1][2])
         IN  IF id.some THEN PushFaceIds(HeapPush(heap, id.val), Tail(entries))
             ELSE [ok |-> FALSE, heap |-> heap]

\* Lines 221-223: the locals of the loop; peek().unwrap() panics on an empty
\* queue.
StartLoop(e) ==
    IF HeapPeek(e.heap).some
    THEN [e EXCEPT !.pc = "loop", !.niter = 0, !.max_dist = MaxValue,
                   !.best_face_id = HeapPeek(e.heap)]
    ELSE Panic(e, "unwrap")

\* Lines 156-198: the initialization from a triangle.
InitTriangle(e) ==
    LET v == e.vertices
        dp1 == Sub(v[2], v[1])
        dp2 == Sub(v[3], v[1])
        vs == IF perp2(dp1, dp2) < 0 THEN [v EXCEPT ![2] = v[3], ![3] = v[2]] ELSE v
        f == <<FaceNew(vs, <<0, 1>>), FaceNew(vs, <<1, 2>>), FaceNew(vs, <<2, 0>>)>>
        faces == <<f[1][1], f[2][1], f[3][1]>>
        entry(i) == IF f[i][2]
                    THEN <<<<i - 1, ScNeg(UnitDot(faces[i].normal, vs[i]))>>>>
                    ELSE <<>>
        pushed == PushFaceIds(e.heap, entry(1) \o entry(2) \o entry(3))
        e1 == [e EXCEPT !.vertices = vs, !.faces = faces, !.heap = pushed.heap]
    IN  IF pushed.ok THEN StartLoop(e1) ELSE Return(e1, None, "outside")

\* Lines 199-219: the initialization from two vertices.
InitSegment(e) ==
    LET v == e.vertices
        faces == <<new_with_proj(v, OriginPoint, <<0, 1>>),
                   new_with_proj(v, OriginPoint, <<1, 0>>)>>
        dist1 == UnitDot(faces[1].normal, v[1])
        dist2 == UnitDot(faces[2].normal, v[2])
        pushed == PushFaceIds(e.heap, <<<<0, dist1>>, <<1, dist2>>>>)
        e1 == [e EXCEPT !.faces = faces, !.heap = pushed.heap]
    IN  IF pushed.ok THEN StartLoop(e1) ELSE Return(e1, None, "outside")

\* Mutant of CanonicalNormal: the first coordinate is set to one.
CanonicalNormal_first_axis == <<1, 0>>

\* Lines 153-154: the zero vector with its second coordinate set to one.
CanonicalNormal == <<0, 1>>

\* project_origin(m, shape, simplex) up to the loop: lines 140-223.
Begin(e, m, shape, simplex) ==
    LET e0 == reset(e)
        e1 == [e0 EXCEPT !.vertices = e0.vertices \o simplex,
                         !.m = m, !.shape = shape, !.simplex = simplex,
                         !.niter = 0, !.max_dist = MaxValue, !.best_face_id = None,
                         !.ret = None, !.exit = "", !.calls = e.calls + 1,
                         !.stale = Len(e.vertices) + Len(e.faces) + Len(e.heap),
                         !.pops = 0, !.skips = 0, !.splits = 0, !.seen = <<>>]
    IN  IF Len(simplex) - 1 = 0
        THEN Return(e1, Some([proj |-> OriginPoint, normal |-> CanonicalNormal]), "dim0")
        ELSE IF Len(simplex) - 1 = 2 THEN InitTriangle(e1)
        ELSE InitSegment(e1)

\* Mutant of SplitRound: a new face nearer than the face it replaces is
\* queued like any other.
SplitRound_no_early_return(st, f, curr_dist) ==
    IF st.out # "next" THEN st
    ELSE IF f[2]
    THEN LET dist == UnitDotProj(f[1].normal, f[1].proj)
             id == FaceIdNew(Len(st.faces), ScNeg(dist))
         IN  IF ~f[1].deleted
             THEN IF id.some
                  THEN [st EXCEPT !.heap = HeapPush(st.heap, id.val),
                                  !.faces = Append(st.faces, f[1])]
                  ELSE [st EXCEPT !.out = "none"]
             ELSE [st EXCEPT !.faces = Append(st.faces, f[1])]
    ELSE [st EXCEPT !.faces = Append(st.faces, f[1])]

\* Mutant of SplitRound: a face whose entry is queued is not stored.
SplitRound_unstored(st, f, curr_dist) ==
    IF st.out # "next" THEN st
    ELSE IF f[2]
    THEN LET dist == UnitDotProj(f[1].normal, f[1].proj)
             id == FaceIdNew(Len(st.faces), ScNeg(dist))
         IN  IF ScLt(dist, curr_dist)
             THEN [st EXCEPT !.out = "return", !.ret = FaceResult(f[1])]
             ELSE IF ~f[1].deleted
             THEN IF id.some
                  THEN [st EXCEPT !.heap = HeapPush(st.heap, id.val)]
                  ELSE [st EXCEPT !.out = "none"]
             ELSE [st EXCEPT !.faces = Append(st.faces, f[1])]
    ELSE [st EXCEPT !.faces = Append(st.faces, f[1])]

\* One round of `for f in new_faces` (lines 262-277) on the faces, the queue
\* and the outcome so far: "next" while the loop goes on, "return" and "none"
\* once it has returned.
SplitRound(st, f, curr_dist) ==
    IF st.out # "next" THEN st
    ELSE IF f[2]
    THEN LET dist == UnitDotProj(f[1].normal, f[1].proj)
             id == FaceIdNew(Len(st.faces), ScNeg(dist))
         IN  IF ScLt(dist, curr_dist)
             THEN [st EXCEPT !.out = "return", !.ret = FaceResult(f[1])]
             ELSE IF ~f[1].deleted
             THEN IF id.some
                  THEN [st EXCEPT !.heap = HeapPush(st.heap, id.val),
                                  !.faces = Append(st.faces, f[1])]
                  ELSE [st EXCEPT !.out = "none"]
             ELSE [st EXCEPT !.faces = Append(st.faces, f[1])]
    ELSE [st EXCEPT !.faces = Append(st.faces, f[1])]

\* Mutant of Better: the latest face always replaces the best one.
Better_always(candidate_max_dist, max_dist) == TRUE

\* `candidate_max_dist < max_dist`, line 242.
Better(candidate_max_dist, max_dist) == ScLt(candidate_max_dist, max_dist)

\* `niter > 10000`, line 280.
CapReached(niter) == niter > IterCap

\* Lines 236-283: the expansion of the face a popped entry refers to.
Expand(e, face_id, face) ==
    LET support == support_point(e.shape, e.m, face.normal)
        support_point_id == Len(e.vertices)
        vertices == Append(e.vertices, support)
        candidate_max_dist == UnitDot(face.normal, support)
        better == Better(candidate_max_dist, e.max_dist)
        best_face_id == IF better THEN Some(face_id) ELSE e.best_face_id
        max_dist == IF better THEN candidate_max_dist ELSE e.max_dist
        curr_dist == ScNeg(face_id.neg_dist)
        e1 == [e EXCEPT !.vertices = vertices, !.best_face_id = best_face_id,
                        !.max_dist = max_dist,
                        !.seen = Append(e.seen, [id |-> face_id,
                                                 dist |-> candidate_max_dist])]
        pts1 == <<face.pts[1], support_point_id>>
        pts2 == <<support_point_id, face.pts[2]>>
        st0 == [faces |-> e.faces, heap |-> e.heap, out |-> "next", ret |-> None]
        st1 == SplitRound(st0, FaceNew(vertices, pts1), curr_dist)
        st2 == SplitRound(st1, FaceNew(vertices, pts2), curr_dist)
        e2 == [e1 EXCEPT !.faces = st2.faces, !.heap = st2.heap]
    IN  IF GapBelowEpsTol(max_dist, curr_dist)
        THEN Return(e1, FaceResult(At(e.faces, best_face_id.val.id)), "converged")
        ELSE IF st2.out = "return" THEN Return(e2, st2.ret, "degenerate")
        ELSE IF st2.out = "none" THEN Return(e2, None, "outside")
        ELSE IF CapReached(e.niter + 1)
        THEN Return([e2 EXCEPT !.niter = e.niter + 1, !.splits = e.splits + 1],
                    None, "cap")
        ELSE [e2 EXCEPT !.niter = e.niter + 1, !.splits = e.splits + 1]

\* Mutant of Iterate: the deleted flag of the popped face is not looked at.
Iterate_expanding_deleted(e) ==
    IF e.heap = <<>>
    THEN Return(e, FaceResult(At(e.faces, e.best_face_id.val.id)), "exhausted")
    ELSE LET popped == HeapPop(e.heap)
             face_id == popped.item
             e1 == [e EXCEPT !.heap = popped.heap, !.pops = e.pops + 1]
         IN  IF face_id.id >= Len(e.faces) THEN Panic(e1, "index")
             ELSE Expand(e1, face_id, At(e.faces, face_id.id))

\* One iteration of `while let Some(face_id) = self.heap.pop()` (lines
\* 228-284), or the return after the loop (lines 286-287) when the queue is
\* empty.
Iterate(e) ==
    IF e.heap = <<>>
    THEN Return(e, FaceResult(At(e.faces, e.best_face_id.val.id)), "exhausted")
    ELSE LET popped == HeapPop(e.heap)
             face_id == popped.item
             e1 == [e EXCEPT !.heap = popped.heap, !.pops = e.pops + 1]
         IN  IF face_id.id >= Len(e.faces) THEN Panic(e1, "index")
             ELSE IF At(e.faces, face_id.id).deleted
             THEN [e1 EXCEPT !.skips = e.skips + 1]
             ELSE Expand(e1, face_id, At(e.faces, face_id.id))

\* The convex polygons project_origin is called on, as vertex lists.
Square == <<<<1, 1>>, <<-1, 1>>, <<-1, -1>>, <<1, -1>>>>

Octagon == <<<<2, 1>>, <<1, 2>>, <<-1, 2>>, <<-2, 1>>,
             <<-2, -1>>, <<-1, -2>>, <<1, -2>>, <<2, -1>>>>

Flat == <<<<-1, 0>>, <<1, 0>>>>

\* A triangle that does not hold the origin.
Wedge == <<<<1, 1>>, <<2, 2>>, <<4, -2>>>>

Shapes == {Square, Octagon, Flat, Wedge}

Shifts == {<<x, 0>> : x \in 0 .. MaxShift}

\* The starting simplices: one to three vertices of the placed shape, in
\* any order and with repetitions.
Simplices(shape, m) ==
    UNION {[1 .. n -> {Add(m, shape[i]) : i \in 1 .. Len(shape)}] : n \in 1 .. 3}

EpaCalls ==
    UNION {{[m |-> m, shape |-> shape, simplex |-> sx] : sx \in Simplices(shape, m)} :
              <<m, shape>> \in Shifts \X Shapes}

\* The calls after which the engine is used again: they end by a result of
\* the dimension-0 case, by a converged result with entries left in the
\* queue, by None on the cap, and by None during the initialization with a
\* queue half filled.
HistoryCalls ==
    {[m |-> <<0, 0>>, shape |-> Square, simplex |-> <<<<1, 1>>>>],
     [m |-> <<0, 0>>, shape |-> Square, simplex |-> <<<<1, 1>>, <<-1, 1>>, <<-1, -1>>>>],
     [m |-> <<0, 0>>, shape |-> Octagon, simplex |-> <<<<2, 1>>, <<-2, 1>>, <<-1, -2>>>>],
     [m |-> <<0, 0>>, shape |-> Flat, simplex |-> <<<<-1, 0>>, <<1, 0>>>>]}

LastCall(e) == [m |-> e.m, shape |-> e.shape, simplex |-> e.simplex]

\* A call of project_origin on the engine, up to the loop; the same call is
\* made on a second engine fresh from EPA2::new.
EpaBegin ==
    /\ \/ epa.pc = "idle"
       \/ epa.pc = "done" /\ epa.calls < MaxCalls /\ LastCall(epa) \in HistoryCalls
    /\ \E c \in EpaCalls :
          /\ epa' = Begin(epa, c.m, c.shape, c.simplex)
          /\ ref' = Begin(NewEngine, c.m, c.shape, c.simplex)
    /\ UNCHANGED <<toi, det, detHist, bfs>>

\* One iteration of the expansion loop, on both engines.
EpaIterate ==
    /\ epa.pc = "loop"
    /\ epa' = Iterate(epa)
    /\ ref' = IF ref.pc = "loop" THEN Iterate(ref) ELSE ref
    /\ UNCHANGED <<toi, det, detHist, bfs>>

(***************************************************************************)
(* Specifications                                                          *)
(***************************************************************************)
\* The dispatcher is called on two shapes of any capabilities.
InitDispatch ==
    /\ \E c1, c2 \in SUBSET Capabilities : toi = ToiCall(c1, c2)
    /\ det = NewDetector
    /\ detHist = NoHistory
    /\ bfs = CompCall(<<0, 0>>, [parts |-> <<>>, bvt |-> None], <<0, 0>>, [half |-> 0])
    /\ epa = NewEngine
    /\ ref = NewEngine

NextDispatch == ToiDispatch \/ ToiQuery

SpecDispatch == InitDispatch /\ [][NextDispatch]_vars

\* A detector fresh from new().
InitDetector ==
    /\ toi = ToiCall({}, {})
    /\ det = NewDetector
    /\ detHist = NoHistory
    /\ bfs = CompCall(<<0, 0>>, [parts |-> <<>>, bvt |-> None], <<0, 0>>, [half |-> 0])
    /\ epa = NewEngine
    /\ ref = NewEngine

NextDetector == DetUpdate

SpecDetector == InitDetector /\ [][NextDetector]_vars

\* composite_shape_against_any is called on a composite shape and a shape.
InitComposite ==
    /\ toi = ToiCall({}, {})
    /\ det = NewDetector
    /\ detHist = NoHistory
    /\ bfs \in CompCalls
    /\ epa = NewEngine
    /\ ref = NewEngine

NextComposite == CompStart \/ CompVisitInternal \/ CompVisitLeaf \/ CompFinish

SpecComposite == InitComposite /\ [][NextComposite]_vars

\* any_against_composite_shape is called on a shape and a composite shape.
InitEntry ==
    /\ toi = ToiCall({}, {})
    /\ det = NewDetector
    /\ detHist = NoHistory
    /\ bfs \in {EntryPending(args) : args \in EntryCalls}
    /\ epa = NewEngine
    /\ ref = NewEngine

NextEntry ==
    \/ EntryDelegate
    \/ CompStart
    \/ CompVisitInternal
    \/ CompVisitLeaf
    \/ CompFinish
    \/ EntryDirect

SpecEntry == InitEntry /\ [][NextEntry]_vars

\* An engine fresh from EPA2::new, and a second one.
Init ==
    /\ toi = ToiCall({}, {})
    /\ det = NewDetector
    /\ detHist = NoHistory
    /\ bfs = CompCall(<<0, 0>>, [parts |-> <<>>, bvt |-> None], <<0, 0>>, [half |-> 0])
    /\ epa = NewEngine
    /\ ref = NewEngine

Next == EpaBegin \/ EpaIterate

Spec == Init /\ [][Next]_vars

(***************************************************************************)
(* Properties of the dispatcher                                            *)
(***************************************************************************)
\* The capability patterns in their priority order ("Any" places no demand
\* on the operand) with the routine and the views each one hands over.
Patterns ==
    <<[a |-> "Ball", b |-> "Ball", routine |-> "ball_against_ball",
       view1 |-> "Ball", view2 |-> "Ball"],
      [a |-> "Plane", b |-> "SupportMap", routine |-> "plane_against_support_map",
       view1 |-> "Plane", view2 |-> "SupportMap"],
      [a |-> "SupportMap", b |-> "Plane", routine |-> "support_map_against_plane",
       view1 |-> "SupportMap", view2 |-> "Plane"],
      [a |-> "SupportMap", b |-> "SupportMap", routine |-> "support_map_against_support_map",
       view1 |-> "SupportMap", view2 |-> "SupportMap"],
      [a |-> "Composite", b |-> "Any", routine |-> "composite_shape_against_any",
       view1 |-> "Composite", view2 |-> "Shape"],
      [a |-> "Any", b |-> "Composite", routine |-> "any_against_composite_shape",
       view1 |-> "Shape", view2 |-> "Composite"]>>

Matching(c1, c2) ==
    {i \in 1 .. Len(Patterns) :
        /\ Patterns[i].a = "Any" \/ Patterns[i].a \in c1
        /\ Patterns[i].b = "Any" \/ Patterns[i].b \in c2}

FirstMatch(c1, c2) ==
    CHOOSE i \in Matching(c1, c2) : \A j \in Matching(c1, c2) : i <= j

\* C1: whenever some pattern matches the two capability sets, the dispatch
\* returns after exactly one routine call, the call is the routine of the
\* first pattern of the priority order that matches, on that pattern's views
\* of the operands, and the value returned is that call's result.
C1_FirstMatchWins ==
    (toi.pc # "call" /\ Matching(toi.caps1, toi.caps2) # {}) =>
        LET p == Patterns[FirstMatch(toi.caps1, toi.caps2)]
        IN  /\ toi.pc = "done"
            /\ Len(toi.calls) = 1
            /\ toi.calls[1].routine = p.routine
            /\ toi.calls[1].view1 = p.view1
            /\ toi.calls[1].view2 = p.view2
            /\ toi.ret = toi.calls[1].result

\* Two balls that are support-mapped and composite as well went to
\* ball_against_ball, which found an impact.
C1_Witness ==
    /\ toi.pc = "done"
    /\ toi.caps1 = Capabilities
    /\ {"Ball", "SupportMap"} \subseteq toi.caps2
    /\ toi.calls[1].routine = "ball_against_ball"
    /\ toi.ret.some

\* C2: when no pattern matches, the dispatch ends by reporting an error to
\* its caller.
C2_NoMatchReportsError ==
    (toi.pc # "call" /\ Matching(toi.caps1, toi.caps2) = {}) => toi.pc = "error"

(***************************************************************************)
(* Properties of the proximity detector                                    *)
(***************************************************************************)
BothBalls(args) == args[2].kind = "Ball" /\ args[4].kind = "Ball"

\* C3: after an update in which at least one shape was not a ball, the call
\* returned false and the stored proximity is the one stored before the call.
C3_NotBallsLeavesState ==
    (detHist.called /\ ~BothBalls(detHist.args)) =>
        (detHist.ret = FALSE /\ proximity(det) = detHist.prev)

\* A detector that had stored Intersecting was given a ball and a plane.
C3_Witness ==
    /\ detHist.called
    /\ ~BothBalls(detHist.args)
    /\ detHist.prev = "Intersecting"
    /\ detHist.args[5] = MaxMargin

\* C4: the stored proximity is the ball/ball classification of the arguments
\* of the most recent update whose two shapes were balls, or Disjoint when
\* there was none; an update whose two shapes are balls returns true.
C4_LastBallUpdateWins ==
    /\ proximity(det) = IF detHist.balls.some THEN detHist.balls.val ELSE "Disjoint"
    /\ (detHist.called /\ BothBalls(detHist.args)) => detHist.ret = TRUE

\* An update on two balls overwrote Intersecting by Disjoint.
C4_Witness ==
    /\ detHist.called
    /\ BothBalls(detHist.args)
    /\ detHist.prev = "Intersecting"
    /\ proximity(det) = "Disjoint"

(***************************************************************************)
(* Properties of the composite-shape query                                 *)
(***************************************************************************)
\* The exact distances between the sub-parts of g1 and g2.
PartDistances ==
    {distance(bfs.m1, bfs.g1.parts[b], bfs.m2, bfs.g2) : b \in 1 .. Len(bfs.g1.parts)}

\* C5: on a composite shape with at least one sub-part the query returns,
\* and what it returns is the least of the exact distances between the
\* sub-parts and g2.
C5_BestFirstIsMinimum ==
    (bfs.pc \notin {"call", "search"} /\ bfs.g1.parts # <<>>) =>
        /\ bfs.pc = "done"
        /\ bfs.ret.some
        /\ bfs.ret.val \in PartDistances
        /\ \A d \in PartDistances : bfs.ret.val <= d

\* A query on three sub-parts returned without having computed the exact
\* distance of every one of them: part of the tree was pruned.
C5_Witness ==
    /\ bfs.pc = "done"
    /\ Len(bfs.g1.parts) = 3
    /\ Cardinality(bfs.leaves) < 3
    /\ bfs.g2.half = MaxHalf
    /\ bfs.ret.val > 0

\* C6: on a composite shape with no sub-part the query fails and returns
\* no distance.
C6_EmptyCompositeFails ==
    (bfs.pc # "call" /\ bfs.g1.parts = <<>>) => (bfs.pc = "panic" /\ ~bfs.ret.some)

\* The query on an empty composite shape has failed.
C6_Witness == bfs.pc = "panic" /\ bfs.g1.parts = <<>> /\ ~bfs.g1.bvt.some

\* C19: the call of any_against_composite_shape(m1, g1, m2, g2) and the call
\* of composite_shape_against_any(m2, g2, m1, g1) end the same way, with the
\* same value.
C19_SymmetricEntryDelegates ==
    (bfs.pc \in {"done", "panic"} /\ bfs.prior.some) =>
        (bfs.pc = bfs.prior.val.pc /\ bfs.ret = bfs.prior.val.ret)

\* Both calls have returned a distance, for a composite shape of two parts
\* and transformations that differ.
C19_Witness ==
    /\ bfs.pc = "done"
    /\ bfs.prior.some
    /\ bfs.ret.some
    /\ bfs.ret.val > 0
    /\ bfs.args[1] # bfs.args[3]
    /\ Len(bfs.args[4].parts) = 2

(***************************************************************************)
(* Properties of EPA2::project_origin                                      *)
(***************************************************************************)
\* The entries a call can pop: at most three from the initialization and
\* two for every face it splits.
MaxPops == 3 + 2 * (IterCap + 1)

\* C7: a call of project_origin does not crash and stays within a bounded
\* number of loop iterations, the iterations that discard a deleted face
\* included.
C7_NoCrashBoundedLoop == epa.pc # "panic" /\ epa.pops <= MaxPops

\* C8: a call never completes more than IterCap face expansions, and a call
\* that ends on the cap returns None.
C8_AtMostCapExpansions ==
    /\ epa.splits <= IterCap
    /\ epa.exit = "cap" => (epa.pc = "done" /\ ~epa.ret.some)

\* What a call leaves behind apart from the history of the engine.
Outcome(e) ==
    [pc |-> e.pc, ret |-> e.ret, exit |-> e.exit, vertices |-> e.vertices,
     faces |-> e.faces, heap |-> e.heap, niter |-> e.niter, max_dist |-> e.max_dist,
     best_face_id |-> e.best_face_id]

\* C9: at every point of a call, the engine that served earlier calls is in
\* the state of an engine fresh from new() given the same call: buffers,
\* locals and the value returned are the same.
C9_ResultIndependentOfHistory == epa.pc # "idle" => Outcome(epa) = Outcome(ref)

\* A second call on an engine whose buffers held entries of the first call
\* has converged to a result.
C9_Witness ==
    /\ epa.calls = 2
    /\ epa.stale > 3
    /\ epa.pc = "done"
    /\ epa.exit = "converged"
    /\ epa.ret.some
    /\ epa.splits >= 2

\* No edge of the starting triangle has the origin project inside it.
NothingEnqueued(simplex) ==
    /\ Len(simplex) = 3
    /\ ~project_origin(simplex[1], simplex[2]).some
    /\ ~project_origin(simplex[2], simplex[3]).some
    /\ ~project_origin(simplex[3], simplex[1]).some

\* C10: a call on a triangle of which nothing is enqueued during the
\* initialization returns None.
C10_DegenerateTriangleGivesNone ==
    (epa.pc # "idle" /\ NothingEnqueued(epa.simplex)) =>
        (epa.pc = "done" /\ ~epa.ret.some)

\* The faces the initialization of the call hands to the queue: of a
\* triangle those the origin projects inside, of two vertices both.
InitFaces(e) ==
    IF Len(e.simplex) = 3
    THEN {i \in 1 .. 3 : project_origin(At(e.vertices, e.faces[i].pts[1]),
                                        At(e.vertices, e.faces[i].pts[2])).some}
    ELSE IF Len(e.simplex) = 2 THEN {1, 2}
    ELSE {}

\* The distance of a face from the origin: its normal times its first vertex.
FaceDist(e, face) == UnitDot(face.normal, At(e.vertices, face.pts[1]))

C12_KeyIsNegatedDistance ==
    \A i \in 1 .. Len(epa.heap) :
       epa.heap[i].id < Len(epa.faces)
       /\ epa.heap[i].neg_dist = ScNeg(FaceDist(epa, At(epa.faces, epa.heap[i].id)))

\* The top of the queue refers to a face flagged deleted.
DeletedOnTop(e) ==
    /\ e.pc = "loop"
    /\ e.heap # <<>>
    /\ At(e.faces, e.heap[1].id).deleted

\* C13: an iteration that pops the entry of a deleted face only discards the
\* entry: the loop goes on with the vertices, the faces, max_dist, the best
\* face and the iteration counter as they were, and no face is expanded.
C13_DeletedFaceIsSkipped ==
    [][DeletedOnTop(epa) =>
          /\ epa'.pc = "loop"
          /\ Len(epa'.heap) = Len(epa.heap) - 1
          /\ epa'.vertices = epa.vertices
          /\ epa'.faces = epa.faces
          /\ epa'.max_dist = epa.max_dist
          /\ epa'.best_face_id = epa.best_face_id
          /\ epa'.niter = epa.niter
          /\ epa'.seen = epa.seen
          /\ epa'.splits = epa.splits]_vars

\* The entry of a deleted face has been popped and discarded.
C13_Witness == epa.skips >= 1 /\ epa.pops >= 1 /\ epa.seen = <<>>

\* The top of the queue refers to a face that is not deleted: the iteration
\* expands it.
LiveOnTop(e) ==
    /\ e.pc = "loop"
    /\ e.heap # <<>>
    /\ ~At(e.faces, e.heap[1].id).deleted

\* The new face f (with its flag) has the origin project inside it, nearer
\* than curr_dist.
Nearer(f, curr_dist) == f[2] /\ ScLt(UnitDotProj(f[1].normal, f[1].proj), curr_dist)

\* The point and the normal of a face, as project_origin returns them.
PointAndNormal(face) == [some |-> TRUE, val |-> [proj |-> face.proj, normal |-> face.normal]]

\* C14: when the expansion of a face has not converged and one of the two
\* new faces is nearer to the origin than the face it replaces, the call
\* returns the point and the normal of the first such face; that face is
\* neither stored nor queued, the face after it is not looked at and the
\* iteration counter is not advanced.  No other expansion returns this way.
C14_NearerNewFaceReturnsAtOnce ==
    [][(LiveOnTop(epa) /\ epa'.exit # "converged") =>
          LET face == At(epa.faces, epa.heap[1].id)
              curr_dist == ScNeg(epa.heap[1].neg_dist)
              sid == Len(epa.vertices)
              f1 == FaceNew(epa'.vertices, <<face.pts[1], sid>>)
              f2 == FaceNew(epa'.vertices, <<sid, face.pts[2]>>)
          IN  /\ Nearer(f1, curr_dist) =>
                    /\ epa'.pc = "done"
                    /\ epa'.ret = PointAndNormal(f1[1])
                    /\ epa'.faces = epa.faces
                    /\ Len(epa'.heap) = Len(epa.heap) - 1
                    /\ epa'.niter = epa.niter
              /\ (~Nearer(f1, curr_dist) /\ Nearer(f2, curr_dist) /\ epa'.exit # "outside") =>
                    /\ epa'.pc = "done"
                    /\ epa'.ret = PointAndNormal(f2[1])
                    /\ epa'.faces = Append(epa.faces, f1[1])
                    /\ Len(epa'.heap) <= Len(epa.heap)
                    /\ epa'.niter = epa.niter
              /\ epa'.exit = "degenerate" =>
                    (Nearer(f1, curr_dist) \/ Nearer(f2, curr_dist))]_vars

\* A call has returned the data of a new face nearer than the face it split.
C14_Witness ==
    /\ epa.pc = "done"
    /\ epa.exit = "degenerate"
    /\ epa.ret.some
    /\ epa.seen # <<>>
    /\ epa.niter = Len(epa.seen) - 1

\* C15: once a face has been expanded, max_dist is the least support
\* distance of the faces expanded so far and best_face_id is the entry of an
\* expanded face with that support distance; max_dist never increases in
\* the course of a call.
C15_MaxDistIsMinimumSeen ==
    /\ [](epa.seen # <<>> =>
            /\ \A j \in 1 .. Len(epa.seen) : ~ScLt(epa.seen[j].dist, epa.max_dist)
            /\ \E j \in 1 .. Len(epa.seen) :
                  /\ epa.seen[j].dist = epa.max_dist
                  /\ epa.best_face_id = [some |-> TRUE, val |-> epa.seen[j].id])
    /\ [][epa.pc = "loop" => ~ScLt(epa.max_dist, epa'.max_dist)]_vars

\* The best face is the second face expanded; the first and the third have
\* a greater support distance.
C15_Witness ==
    /\ Len(epa.seen) >= 3
    /\ epa.best_face_id.some
    /\ epa.best_face_id.val = epa.seen[2].id
    /\ ScLt(epa.max_dist, epa.seen[1].dist)
    /\ ScLt(epa.max_dist, epa.seen[3].dist)

\* C16: when the expansion of a face leaves max_dist within the tolerance of
\* the distance of that face, the call returns the point and the normal of
\* the best face; the face is not split: no face is stored or queued and
\* the iteration counter is not advanced.
C16_ConvergenceReturnsBestFace ==
    [][(LiveOnTop(epa) /\ ~ScLt(ScNeg(epa.heap[1].neg_dist), epa'.max_dist)) =>
          /\ epa'.pc = "done"
          /\ epa'.best_face_id.some
          /\ epa'.ret = PointAndNormal(At(epa.faces, epa'.best_face_id.val.id))
          /\ epa'.faces = epa.faces
          /\ Len(epa'.heap) = Len(epa.heap) - 1
          /\ epa'.niter = epa.niter
          /\ epa'.splits = epa.splits]_vars

\* A call has converged after several expansions on a best face that is not
\* the face expanded last.
C16_Witness ==
    /\ epa.pc = "done"
    /\ epa.exit = "converged"
    /\ epa.ret.some
    /\ Len(epa.seen) >= 2
    /\ epa.best_face_id.val # epa.seen[Len(epa.seen)].id

\* Sequence s is the beginning of sequence t.
IsPrefix(s, t) == Len(s) <= Len(t) /\ SubSeq(t, 1, Len(s)) = s

\* Every face refers to two positions of the vertex buffer and every entry
\* of the queue to a position of the face list.
IndicesValid(e) ==
    /\ \A i \in 1 .. Len(e.faces) :
          e.faces[i].pts[1] < Len(e.vertices) /\ e.faces[i].pts[2] < Len(e.vertices)
    /\ \A i \in 1 .. Len(e.heap) : e.heap[i].id < Len(e.faces)

\* C17: from the start of the loop on, a step of the call keeps every vertex
\* and every face where it is and only appends; before and after every
\* iteration the indices held by the faces and by the queue are valid.
C17_BuffersOnlyGrow ==
    [][epa.pc = "loop" =>
          /\ IsPrefix(epa.vertices, epa'.vertices)
          /\ IsPrefix(epa.faces, epa'.faces)
          /\ IndicesValid(epa)
          /\ IndicesValid(epa')
          /\ epa'.pc # "panic"]_vars

\* The call has split faces: vertices and faces were appended and entries
\* of the new faces are in the queue.
C17_Witness ==
    /\ epa.pc = "loop"
    /\ epa.splits >= 2
    /\ Len(epa.vertices) = Len(epa.simplex) + 2
    /\ Len(epa.faces) = Len(epa.simplex) + 4
    /\ \E i \in 1 .. Len(epa.heap) : epa.heap[i].id >= Len(epa.simplex)

\* C18: a call on a simplex of one point returns the origin with the normal
\* (0, 1); it holds the point of the simplex as its only vertex, no face and
\* no queue entry, and has popped and expanded nothing.
C18_PointSimplexGivesOrigin ==
    (epa.pc # "idle" /\ Len(epa.simplex) = 1) =>
        /\ epa.pc = "done"
        /\ epa.ret = [some |-> TRUE,
                      val |-> [proj |-> [num |-> <<0, 0>>, den |-> 1], normal |-> <<0, 1>>]]
        /\ epa.vertices = epa.simplex
        /\ epa.faces = <<>>
        /\ epa.heap = <<>>
        /\ epa.pops = 0
        /\ epa.seen = <<>>

\* An engine that held vertices, faces and entries of an earlier call has
\* answered a call on a simplex of one point.
C18_Witness ==
    /\ epa.pc = "done"
    /\ Len(epa.simplex) = 1
    /\ epa.calls = 2
    /\ epa.stale > 1
    /\ epa.ret.some

\* C20: the normal of every result is a unit vector, never the zero vector
\* that a face flagged deleted carries.
C20_NeverReturnsDeletedFace == epa.ret.some => epa.ret.val.normal # <<0, 0>>

\* C21: the distances -neg_dist of the faces expanded by a call, in the
\* order of their expansion, never decrease; the entry on top of the queue
\* has the least distance of all entries; and an entry queued by an
\* expansion has a distance that is at least the distance of the face
\* expanded.
C21_ExpandedDistancesNeverDecrease ==
    /\ [](/\ \A j, k \in 1 .. Len(epa.seen) :
                j < k => ~ScLt(epa.seen[j].id.neg_dist, epa.seen[k].id.neg_dist)
          /\ \A i \in 1 .. Len(epa.heap) :
                ~ScLt(epa.heap[1].neg_dist, epa.heap[i].neg_dist))
    /\ [][LiveOnTop(epa) =>
             \A i \in 1 .. Len(epa'.heap) :
                epa'.heap[i].id >= Len(epa.faces) =>
                   ~ScLt(epa.heap[1].neg_dist, epa'.heap[i].neg_dist)]_vars

\* Three faces have been expanded, the third farther from the origin than
\* the first, with entries of new faces still in the queue.
C21_Witness ==
    /\ Len(epa.seen) >= 3
    /\ ScLt(epa.seen[3].id.neg_dist, epa.seen[1].id.neg_dist)
    /\ epa.seen[3].id.id >= Len(epa.simplex)
    /\ epa.heap # <<>>

====
